---- MODULE Spec2Model ----
(***************************************************************************)
(* Model of the Virtual-AI backend: the job repository (crud_job), the     *)
(* blob store client (storage_service), the upstream image client          *)
(* (openrouter_service.generate_image with its tenacity retry wrapper) and *)
(* the orchestrating flow (scripts/smoke_service.main).                    *)
(***************************************************************************)
EXTENDS Integers, Sequences, FiniteSets, TLC

VARIABLES
    jobs,            \* generation_jobs table: uuid -> row, or NoJob
    env_jobs,        \* number of rows created by callers other than main()
    blob,            \* the S3 bucket: key -> bytes, or NoObject
    BUCKET_CHECKED,  \* storage_service._BUCKET_CHECKED
    bucket_checks,   \* number of times _ensure_bucket_sync was started
    pc,              \* per flow: position of main()
    st,              \* per flow: position inside the pending storage_service call
    flow_job,        \* per flow: the uuid of the job main() created
    gen,             \* per flow: the state of its running generate_image invocation
    gen_bytes,       \* per flow: main()'s gen_bytes once generate_image returned
    raised,          \* per flow: the exception that left main(), or None
    env_ops,         \* number of crud_job calls made by callers other than main()
    env_ret,         \* what the last crud_job call of another caller returned
    resolution       \* one attempt of generate_image taken alone: what the provider
                     \* answers to it, and what the attempt came to

vars == <<jobs, env_jobs, blob, BUCKET_CHECKED, bucket_checks,
          pc, st, flow_job, gen, gen_bytes, raised, env_ops, env_ret, resolution>>

-----------------------------------------------------------------------------
(* Bounds of the model *)

NumFlows == 2
MaxParts == 2
MaxEnvJobs == 2
MaxEnvOps == 3
MaxInterference == 1

(* Program constants *)

MaxAttempts == 3

Flows == 1..NumFlows
UUIDs == 1..(NumFlows + MaxEnvJobs)

\* uuid.uuid4: a value no other row has. Which one is immaterial: each flow
\* draws its own, and the k-th row of the other callers draws NumFlows + k.
uuid4(caller, k) == IF caller \in Flows THEN caller ELSE NumFlows + k

None == "None"
EmptyBytes == ""
NoJob == [present |-> FALSE]
NoObject == "NoObject"

Truthy(v) == v # None /\ v # EmptyBytes

-----------------------------------------------------------------------------
(* app/db/models.py *)

JobStatus == {"PENDING", "PROCESSING", "COMPLETED", "FAILED"}

\* A row as the INSERT defaults produce it: status defaults to PENDING,
\* generated_image_key is NULL, uuid is a fresh uuid4.
GenerationJob(uuid, prompt, initial_image_key, reference_image_key) ==
    [present |-> TRUE,
     uuid |-> uuid,
     prompt |-> prompt,
     status |-> "PENDING",
     initial_image_key |-> initial_image_key,
     reference_image_key |-> reference_image_key,
     generated_image_key |-> None]

-----------------------------------------------------------------------------
(* app/services/openrouter_service.py: response resolution *)

Urls == {"http://u1", "http://u2"}

\* Outcome of a call: a returned value (bytes or None) or a raised exception;
\* log is the sequence of URLs fetched while computing it.
Ret(v, log) == [kind |-> "return", val |-> v, log |-> log]
Raise(exc, msg, log) == [kind |-> exc, val |-> msg, log |-> log]
IsRaise(o) == o.kind # "return"

\* text is a sequence of whitespace-separated tokens; re.search finds the first
\* token holding "http://" or "https://" and returns it from the scheme on.
_extract_url_from_text(text) ==
    LET hits == {i \in 1..Len(text) : text[i].url # None}
    IN IF hits = {} THEN None
       ELSE text[CHOOSE i \in hits : \A j \in hits : i <= j].url

\* base64.b64decode: bad padding raises, anything else decodes (possibly to b"").
b64decode(data_b64) ==
    CASE data_b64 = "b64:b1" -> [ok |-> TRUE, bytes |-> "b1"]
      [] data_b64 = "b64:b2" -> [ok |-> TRUE, bytes |-> "b2"]
      [] data_b64 = "!!!!" -> [ok |-> TRUE, bytes |-> EmptyBytes]
      [] OTHER -> [ok |-> FALSE, bytes |-> EmptyBytes]

_decode_b64(data_b64) ==
    LET d == b64decode(data_b64)
    IN IF d.ok THEN Ret(d.bytes, <<>>)
       ELSE Raise("ImageGenerationError", "Failed to decode base64 image from upstream", <<>>)

\* Mutant: a rate-limit answer is not told apart from the other 4xx answers
_fetch_bytes_from_url_5xx_only(web, url) ==
    LET resp == web[url]
    IN IF resp.exc
       THEN Raise("ConnectionError", "requests.get failed", <<url>>)
       ELSE IF 500 <= resp.status_code /\ resp.status_code < 600
       THEN Raise("UpstreamUnavailable", "Upstream URL fetch failed", <<url>>)
       ELSE IF resp.status_code >= 400
       THEN Raise("ImageGenerationError", "Failed to fetch image URL", <<url>>)
       ELSE Ret(resp.content, <<url>>)

\* web[url] is what requests.get answers: a network-level exception, or a
\* response with a status code and a body.
_fetch_bytes_from_url(web, url) ==
    LET resp == web[url]
    IN IF resp.exc
       THEN Raise("ConnectionError", "requests.get failed", <<url>>)
       ELSE IF resp.status_code = 429 \/ (500 <= resp.status_code /\ resp.status_code < 600)
       THEN Raise("UpstreamUnavailable", "Upstream URL fetch failed", <<url>>)
       ELSE IF resp.status_code >= 400
       THEN Raise("ImageGenerationError", "Failed to fetch image URL", <<url>>)
       ELSE Ret(resp.content, <<url>>)

\* Provider payloads are JSON trees: a string, None, a mapping (keys and values
\* in insertion order) or a sequence.
JStr(v) == [t |-> "str", v |-> v]
JNone == [t |-> "none"]
JDict(keys, vals) == [t |-> "dict", keys |-> keys, vals |-> vals]
JList(items) == [t |-> "list", items |-> items]

JTruthy(o) ==
    CASE o.t = "str" -> o.v # EmptyBytes
      [] o.t = "dict" -> Len(o.keys) > 0
      [] o.t = "list" -> Len(o.items) > 0
      [] OTHER -> FALSE

\* dict.get(name): the value under name, or None
JGet(o, name) ==
    LET hits == {i \in 1..Len(o.keys) : o.keys[i] = name}
    IN IF hits = {} THEN JNone ELSE o.vals[CHOOSE i \in hits : TRUE]

\* Mutant: no try/except around the search, so an error leaves it
Swallow_nothing(o) == o

\* except Exception: return None
Swallow(o) == IF IsRaise(o) THEN Ret(None, o.log) ELSE o

RECURSIVE _deep_find_image_payload(_, _)
RECURSIVE _deep_find_each(_, _, _)

\* the for loops of _deep_find_image_payload over dict values / list elements
_deep_find_each(web, items, i) ==
    IF i > Len(items) THEN Ret(None, <<>>)
    ELSE LET found == _deep_find_image_payload(web, items[i])
         IN IF Truthy(found.val) THEN found
            ELSE LET rest == _deep_find_each(web, items, i + 1)
                 IN [rest EXCEPT !.log = found.log \o rest.log]

_deep_find_image_payload(web, obj) ==
    IF obj.t = "dict"
    THEN LET b64 == JGet(obj, "b64_json")
             url_container == JGet(obj, "image_url")
         IN IF JTruthy(b64)
            THEN Swallow(IF b64.t = "str" THEN _decode_b64(b64.v)
                         ELSE Raise("ImageGenerationError",
                                    "Failed to decode base64 image from upstream", <<>>))
            ELSE IF JTruthy(url_container) /\ url_container.t = "dict"
                    /\ JTruthy(JGet(url_container, "url"))
            THEN Swallow(IF JGet(url_container, "url").t = "str"
                         THEN _fetch_bytes_from_url(web, JGet(url_container, "url").v)
                         ELSE Raise("TypeError", "url is not a string", <<>>))
            ELSE _deep_find_each(web, obj.vals, 1)
    ELSE IF obj.t = "list"
    THEN _deep_find_each(web, obj.items, 1)
    ELSE Ret(None, <<>>)

\* A content part: its declared type, the url of its image_url container (None
\* when it has no container or the container has no url), and its inline data.
Part(type, url, b64_json, b64) ==
    [type |-> type, url |-> url, b64_json |-> b64_json, b64 |-> b64]

\* A text part whose text holds the words text (a part of type "text" has no
\* image_url container and no inline data)
TextPartWith(text) ==
    [type |-> "text", url |-> None, b64_json |-> None, b64 |-> None, text |-> text]

\* Mutant: a text part is scanned for a URL as plain-text content is
_extract_bytes_from_part_scans_text(web, part) ==
    LET b64_data == IF Truthy(part.b64_json) THEN part.b64_json ELSE part.b64
    IN IF part.type \in {"image_url", "output_image"} /\ Truthy(part.url)
       THEN _fetch_bytes_from_url(web, part.url)
       ELSE IF part.type = "text" /\ "text" \in DOMAIN part
               /\ Truthy(_extract_url_from_text(part.text))
       THEN _fetch_bytes_from_url(web, _extract_url_from_text(part.text))
       ELSE IF Truthy(b64_data)
       THEN _decode_b64(b64_data)
       ELSE Ret(None, <<>>)

_extract_bytes_from_part(web, part) ==
    LET b64_data == IF Truthy(part.b64_json) THEN part.b64_json ELSE part.b64
    IN IF part.type \in {"image_url", "output_image"} /\ Truthy(part.url)
       THEN _fetch_bytes_from_url(web, part.url)
       ELSE IF Truthy(b64_data)
       THEN _decode_b64(b64_data)
       ELSE Ret(None, <<>>)

RECURSIVE extract_from(_, _, _)
extract_from(web, parts, i) ==
    IF i > Len(parts) THEN Ret(None, <<>>)
    ELSE LET data == _extract_bytes_from_part(web, parts[i])
         IN IF ~IsRaise(data) /\ Truthy(data.val) THEN data
            ELSE LET rest == extract_from(web, parts, i + 1)
                 IN [rest EXCEPT !.log = data.log \o rest.log]

_extract_bytes_from_parts(web, parts) == extract_from(web, parts, 1)

\* b.responses is what client.responses.create does: raise NotFoundError, raise
\* another exception, or answer; b.data2 is the dumped answer.
_responses_fallback(b) ==
    IF b.responses = "NotFoundError"
    THEN Raise("ImageGenerationError", "Model not available for image output", <<>>)
    ELSE IF b.responses = "Exception"
    THEN Raise("UpstreamUnavailable", "OpenRouter responses call failed", <<>>)
    ELSE _deep_find_image_payload(b.web, b.data2)

\* One attempt. calls = <<chat calls, responses calls>> issued by the attempt.
Attempt(o, chat_calls, responses_calls) ==
    [kind |-> o.kind, val |-> o.val, log |-> o.log,
     chat_calls |-> chat_calls, responses_calls |-> responses_calls]

\* Mutant: the attempt gives up after the chat call, without the responses call
_sync_request_without_fallback(b) ==
    IF b.chat = "NotFoundError"
    THEN Attempt(Raise("ImageGenerationError",
                       "Model not available. Check model name or your access.", <<>>), 1, 0)
    ELSE IF b.chat = "Exception"
    THEN Attempt(Raise("UpstreamUnavailable", "OpenRouter request failed", <<>>), 1, 0)
    ELSE IF b.malformed
    THEN Attempt(Raise("ImageGenerationError",
                       "Malformed response from upstream: missing message content", <<>>), 1, 0)
    ELSE IF b.content.form = "str"
    THEN LET url == _extract_url_from_text(b.content.text)
         IN IF ~Truthy(url)
            THEN Attempt(Raise("ImageGenerationError",
                               "Upstream returned text content without an image URL", <<>>), 1, 0)
            ELSE Attempt(_fetch_bytes_from_url(b.web, url), 1, 0)
    ELSE LET found == IF b.content.form = "list"
                      THEN _extract_bytes_from_parts(b.web, b.content.parts)
                      ELSE Ret(None, <<>>)
         IN IF Truthy(found.val)
            THEN Attempt(found, 1, 0)
            ELSE Attempt(Raise("ImageGenerationError",
                               "Upstream did not include an image payload", found.log), 1, 0)

\* Mutant: the responses call is issued before the chat answer's list is looked at
_sync_request_fallback_always(b) ==
    IF b.chat = "NotFoundError"
    THEN Attempt(Raise("ImageGenerationError",
                       "Model not available. Check model name or your access.", <<>>), 1, 0)
    ELSE IF b.chat = "Exception"
    THEN Attempt(Raise("UpstreamUnavailable", "OpenRouter request failed", <<>>), 1, 0)
    ELSE IF b.malformed
    THEN Attempt(Raise("ImageGenerationError",
                       "Malformed response from upstream: missing message content", <<>>), 1, 0)
    ELSE IF b.content.form = "str"
    THEN LET url == _extract_url_from_text(b.content.text)
         IN IF ~Truthy(url)
            THEN Attempt(Raise("ImageGenerationError",
                               "Upstream returned text content without an image URL", <<>>), 1, 0)
            ELSE Attempt(_fetch_bytes_from_url(b.web, url), 1, 0)
    ELSE LET found == IF b.content.form = "list"
                      THEN _extract_bytes_from_parts(b.web, b.content.parts)
                      ELSE Ret(None, <<>>)
             found2 == _responses_fallback(b)
             log2 == found2.log \o found.log
         IN IF IsRaise(found2)
            THEN Attempt([found2 EXCEPT !.log = log2], 1, 1)
            ELSE IF Truthy(found.val)
            THEN Attempt([found EXCEPT !.log = log2], 1, 1)
            ELSE IF Truthy(found2.val)
            THEN Attempt([found2 EXCEPT !.log = log2], 1, 1)
            ELSE Attempt(Raise("ImageGenerationError",
                               "Upstream did not include an image payload", log2), 1, 1)

_sync_request_and_extract_bytes(b) ==
    IF b.chat = "NotFoundError"
    THEN Attempt(Raise("ImageGenerationError",
                       "Model not available. Check model name or your access.", <<>>), 1, 0)
    ELSE IF b.chat = "Exception"
    THEN Attempt(Raise("UpstreamUnavailable", "OpenRouter request failed", <<>>), 1, 0)
    ELSE IF b.malformed
    THEN Attempt(Raise("ImageGenerationError",
                       "Malformed response from upstream: missing message content", <<>>), 1, 0)
    ELSE IF b.content.form = "str"
    THEN LET url == _extract_url_from_text(b.content.text)
         IN IF ~Truthy(url)
            THEN Attempt(Raise("ImageGenerationError",
                               "Upstream returned text content without an image URL", <<>>), 1, 0)
            ELSE Attempt(_fetch_bytes_from_url(b.web, url), 1, 0)
    ELSE LET found == IF b.content.form = "list"
                      THEN _extract_bytes_from_parts(b.web, b.content.parts)
                      ELSE Ret(None, <<>>)
         IN IF Truthy(found.val)
            THEN Attempt(found, 1, 0)
            ELSE LET found2 == _responses_fallback(b)
                     log2 == found.log \o found2.log
                 IN IF IsRaise(found2)
                    THEN Attempt([found2 EXCEPT !.log = log2], 1, 1)
                    ELSE IF Truthy(found2.val)
                    THEN Attempt([found2 EXCEPT !.log = log2], 1, 1)
                    ELSE Attempt(Raise("ImageGenerationError",
                                       "Upstream did not include an image payload", log2), 1, 1)

-----------------------------------------------------------------------------
(* What the generation provider and the web can answer to one attempt *)

Resp(status_code, content) == [exc |-> FALSE, status_code |-> status_code, content |-> content]
NetErr == [exc |-> TRUE, status_code |-> 0, content |-> EmptyBytes]
Web(r1, r2) == ("http://u1" :> r1) @@ ("http://u2" :> r2)

Word == [url |-> None]
Link(url) == [url |-> url]
TextContent(text) == [form |-> "str", text |-> text, parts |-> <<>>]
ListContent(parts) == [form |-> "list", text |-> <<>>, parts |-> parts]
OtherContent == [form |-> "other", text |-> <<>>, parts |-> <<>>]

Behaviour(chat, malformed, content, web, responses, data2) ==
    [chat |-> chat, malformed |-> malformed, content |-> content, web |-> web,
     responses |-> responses, data2 |-> data2]

FetchAnswers ==
    {Resp(200, "b1"), Resp(200, "b2"), Resp(404, "nf"), Resp(429, "rl"), Resp(503, "su"), NetErr}

TextPart == Part("text", None, None, None)
B64Part(data) == Part("image", None, data, None)
UrlPart(url) == Part("image_url", url, None, None)

\* A responses answer holding inline data
FallbackTrees_b64 == JDict(<<"output">>, <<JList(<<JDict(<<"b64_json">>, <<JStr("b64:b2")>>)>>)>>)

FallbackTrees ==
    {JDict(<<"output">>, <<JList(<<JDict(<<"b64_json">>, <<JStr("b64:b2")>>)>>)>>),
     JDict(<<"output">>, <<JList(<<JDict(<<"image_url">>,
                                         <<JDict(<<"url">>, <<JStr("http://u2")>>)>>)>>)>>),
     JDict(<<"output">>, <<JList(<<>>)>>),
     JNone}

\* The provider behaviours a flow's attempt can meet.
ProviderBehaviours ==
    {Behaviour(c, FALSE, OtherContent, Web(NetErr, NetErr), "ok", JNone) :
        c \in {"NotFoundError", "Exception"}}
    \cup {Behaviour("ok", TRUE, OtherContent, Web(NetErr, NetErr), "ok", JNone)}
    \cup {Behaviour("ok", FALSE, TextContent(<<Word, Word>>), Web(NetErr, NetErr), "ok", JNone)}
    \cup {Behaviour("ok", FALSE, TextContent(<<Word, Link("http://u1"), Link("http://u2")>>),
                    Web(r, Resp(200, "b2")), "ok", JNone) : r \in FetchAnswers}
    \cup {Behaviour("ok", FALSE, ListContent(<<TextPart, B64Part("b64:b1")>>),
                    Web(NetErr, NetErr), "ok", JNone)}
    \cup {Behaviour("ok", FALSE, c, Web(NetErr, Resp(200, "b1")), r, JNone) :
            c \in {OtherContent, ListContent(<<TextPart, B64Part("b64?")>>)},
            r \in {"NotFoundError", "Exception"}}
    \cup {Behaviour("ok", FALSE, c, Web(NetErr, r), "ok", t) :
            c \in {OtherContent, ListContent(<<UrlPart("http://u1")>>)},
            r \in {Resp(200, "b1"), Resp(503, "su")},
            t \in FallbackTrees}

\* The HTTP status codes requests.get can answer with
StatusCodes == 100..600

\* The parts a content list is made of when one attempt is taken alone: text
\* with and without a URL, inline data under either key (valid, not base64,
\* decoding to b""), an image URL under an image type and under another type
ResolveParts ==
    {TextPart,
     TextPartWith(<<Word, Link("http://u2")>>),
     B64Part("b64:b1"),
     B64Part("b64?"),
     B64Part("!!!!"),
     Part("output_image", None, None, "b64:b2"),
     UrlPart("http://u1"),
     Part("image", "http://u1", None, None)}

RECURSIVE SeqsUpTo(_, _)
SeqsUpTo(S, n) ==
    IF n = 0 THEN {<<>>}
    ELSE LET shorter == SeqsUpTo(S, n - 1)
         IN shorter \cup {Append(q, x) : q \in {r \in shorter : Len(r) = n - 1}, x \in S}

ResolveContents == {ListContent(parts) : parts \in SeqsUpTo(ResolveParts, MaxParts)}

ResolveTexts ==
    {<<>>, <<Word, Word>>, <<Link("http://u1")>>, <<Word, Link("http://u1"), Link("http://u2")>>}

ResolveFetchAnswers ==
    {Resp(200, "b1"), Resp(200, EmptyBytes), Resp(404, "nf"), Resp(429, "rl"), Resp(503, "su"),
     NetErr}

\* Mappings of a responses answer: inline data, an image URL, or both
B64Leaf(data) == JDict(<<"b64_json">>, <<JStr(data)>>)
UrlLeaf(url) == JDict(<<"image_url">>, <<JDict(<<"url">>, <<JStr(url)>>)>>)
BothLeaf(data, url) ==
    JDict(<<"b64_json", "image_url">>, <<JStr(data), JDict(<<"url">>, <<JStr(url)>>)>>)

OutputOf(items) == JDict(<<"output">>, <<JList(items)>>)

\* Responses answers where a mapping whose decode or fetch can fail stands
\* alone, or before a sibling that holds a payload
ResolveTrees ==
    {OutputOf(<<B64Leaf("b64?")>>),
     OutputOf(<<B64Leaf("b64?"), B64Leaf("b64:b2")>>),
     OutputOf(<<UrlLeaf("http://u1")>>),
     OutputOf(<<UrlLeaf("http://u1"), B64Leaf("b64:b2")>>),
     OutputOf(<<UrlLeaf("http://u1"), UrlLeaf("http://u2")>>),
     OutputOf(<<BothLeaf("b64?", "http://u2")>>),
     JDict(<<"first", "second">>, <<UrlLeaf("http://u1"), UrlLeaf("http://u2")>>)}

\* What the responses call does, with the tree it answers
ResolveFallbacks ==
    {<<"NotFoundError", JNone>>, <<"Exception", JNone>>}
    \cup {<<"ok", t>> : t \in FallbackTrees \cup ResolveTrees}

\* The provider behaviours one attempt taken alone can meet
ResolveBehaviours ==
    {Behaviour(c, FALSE, OtherContent, Web(NetErr, NetErr), "ok", JNone) :
        c \in {"NotFoundError", "Exception"}}
    \cup {Behaviour("ok", TRUE, OtherContent, Web(NetErr, NetErr), "ok", JNone)}
    \cup {Behaviour("ok", FALSE, TextContent(t), Web(Resp(s, "b1"), Resp(200, "b2")), "ok",
                    FallbackTrees_b64) : t \in ResolveTexts, s \in StatusCodes}
    \cup {Behaviour("ok", FALSE, TextContent(t), Web(NetErr, Resp(200, "b2")), "ok",
                    FallbackTrees_b64) : t \in ResolveTexts}
    \cup {Behaviour("ok", FALSE, c, Web(r, Resp(200, "b2")), fb[1], fb[2]) :
            c \in ResolveContents \cup {OtherContent},
            r \in ResolveFetchAnswers,
            fb \in ResolveFallbacks}

-----------------------------------------------------------------------------
(* tenacity: @retry(stop=stop_after_attempt(3), wait=..., retry=retry_if_exception_type(UpstreamUnavailable)) *)

\* Mutant: the retry predicate also matches ImageGenerationError
retry_if_any_domain_error(o) == o.kind \in {"UpstreamUnavailable", "ImageGenerationError"}

retry_if_exception_type(o) == o.kind = "UpstreamUnavailable"

\* Mutant: the stop condition is off by one
stop_after_attempt_late(attempt_number) == attempt_number > MaxAttempts

stop_after_attempt(attempt_number) == attempt_number >= MaxAttempts

\* What the retry wrapper does with the outcome o of attempt attempt_number:
\* return its value, re-raise a non-retryable exception, give up with
\* tenacity.RetryError (reraise is not set), or wait and try again.
retry_decision(o, attempt_number) ==
    IF ~IsRaise(o) THEN [do |-> "return", kind |-> "return"]
    ELSE IF ~retry_if_exception_type(o) THEN [do |-> "raise", kind |-> o.kind]
    ELSE IF stop_after_attempt(attempt_number) THEN [do |-> "raise", kind |-> "RetryError"]
    ELSE [do |-> "retry", kind |-> "pending"]

GenIdle ==
    [attempt_number |-> 1, history |-> <<>>, outcome |-> [kind |-> "pending", val |-> None],
     chat_calls |-> 0, responses_calls |-> 0]

\* generate_image after one more attempt with outcome a
generate_image(g, a) ==
    LET d == retry_decision(a, g.attempt_number)
    IN [attempt_number |-> IF d.do = "retry" THEN g.attempt_number + 1 ELSE g.attempt_number,
        history |-> Append(g.history,
                           [kind |-> a.kind, bytes |-> IF IsRaise(a) THEN None ELSE a.val]),
        outcome |-> [kind |-> d.kind, val |-> IF d.do = "return" THEN a.val ELSE None],
        chat_calls |-> g.chat_calls + a.chat_calls,
        responses_calls |-> g.responses_calls + a.responses_calls]

-----------------------------------------------------------------------------
(* app/crud/crud_job.py and app/api/v1/schemas/generate.py *)

JobCreate(prompt, initial_image_key, reference_image_key) ==
    [prompt |-> prompt, initial_image_key |-> initial_image_key,
     reference_image_key |-> reference_image_key]

\* A JobUpdate: the fields explicitly set, and their values (None where unset).
JobUpdate(fields, status, generated_image_key) ==
    [fields |-> fields, status |-> status, generated_image_key |-> generated_image_key]

\* Mutant: the optional reference_image_key is not copied from the input
create_job_drops_reference(tbl, uuid, job_in) ==
    [tbl EXCEPT ![uuid] = GenerationJob(uuid, job_in.prompt, job_in.initial_image_key, None)]

create_job(tbl, uuid, job_in) ==
    [tbl EXCEPT ![uuid] = GenerationJob(uuid, job_in.prompt, job_in.initial_image_key,
                                        job_in.reference_image_key)]

get_job_by_uuid(tbl, job_uuid) ==
    IF job_uuid \in DOMAIN tbl /\ tbl[job_uuid].present THEN tbl[job_uuid] ELSE NoJob

\* Mutant: model_dump() without exclude_unset, so unset fields are written too
update_job_writes_unset(tbl, job_uuid, job_in) ==
    [tbl EXCEPT ![job_uuid] =
        [@ EXCEPT !.status = job_in.status,
                  !.generated_image_key = job_in.generated_image_key]]

\* setattr for every field of model_dump(exclude_unset=True)
update_job(tbl, job_uuid, job_in) ==
    [tbl EXCEPT ![job_uuid] =
        [@ EXCEPT !.status = IF "status" \in job_in.fields THEN job_in.status ELSE @,
                  !.generated_image_key =
                      IF "generated_image_key" \in job_in.fields
                      THEN job_in.generated_image_key ELSE @]]

\* Mutant: the DELETE is not restricted to the row that was found
delete_job_every_row(tbl, job_uuid) ==
    IF get_job_by_uuid(tbl, job_uuid).present
    THEN [u \in DOMAIN tbl |-> NoJob]
    ELSE tbl

delete_job(tbl, job_uuid) ==
    IF get_job_by_uuid(tbl, job_uuid).present
    THEN [tbl EXCEPT ![job_uuid] = NoJob]
    ELSE tbl

\* Mutant: the UPDATE is not restricted to the row that was found
update_job_status_every_row(tbl, job_uuid, new_status, generated_key) ==
    IF ~get_job_by_uuid(tbl, job_uuid).present
    THEN tbl
    ELSE [u \in DOMAIN tbl |->
            IF ~tbl[u].present THEN tbl[u]
            ELSE [tbl[u] EXCEPT !.status = new_status,
                                !.generated_image_key =
                                    IF generated_key # None THEN generated_key ELSE @]]

\* delete_job returns job_to_delete: the row it found, or None
delete_job_returns(tbl, job_uuid) == get_job_by_uuid(tbl, job_uuid)

update_job_status(tbl, job_uuid, new_status, generated_key) ==
    IF ~get_job_by_uuid(tbl, job_uuid).present
    THEN tbl
    ELSE [tbl EXCEPT ![job_uuid] =
            [@ EXCEPT !.status = new_status,
                      !.generated_image_key = IF generated_key # None THEN generated_key ELSE @]]

-----------------------------------------------------------------------------
(* app/services/storage_service.py and scripts/smoke_service.py *)

\* main(): run_id = secrets.token_hex(8), one per run of the flow
initial_key(f) == "smoke/" \o ToString(f) \o "/initial.jpg"
reference_key(f) == "smoke/" \o ToString(f) \o "/reference.jpg"
generated_key(f) == "smoke/" \o ToString(f) \o "/generated.jpg"

BlobKeys == UNION {{initial_key(f), reference_key(f), generated_key(f)} : f \in Flows}

DEFAULT_PROMPT == "Make the first model wear the outfit"

\* The storage_service call main() makes at each position, as <<key, data>>
UploadPcs == {"upload_initial", "upload_reference", "upload_generated"}
StoragePcs == UploadPcs \cup {"sign"}

\* Mutant: the generated bytes are uploaded under the reference key
upload_args_wrong_key(f) ==
    CASE pc[f] = "upload_initial" -> <<initial_key(f), "jpg:initial">>
      [] pc[f] = "upload_reference" -> <<reference_key(f), "jpg:reference">>
      [] OTHER -> <<reference_key(f), gen_bytes[f]>>

upload_args(f) ==
    CASE pc[f] = "upload_initial" -> <<initial_key(f), "jpg:initial">>
      [] pc[f] = "upload_reference" -> <<reference_key(f), "jpg:reference">>
      [] OTHER -> <<generated_key(f), gen_bytes[f]>>

after_upload(p) ==
    CASE p = "upload_initial" -> "upload_reference"
      [] p = "upload_reference" -> "generate"
      [] OTHER -> "complete"

\* No attempt is being taken alone
NoResolution == [started |-> FALSE]

Init ==
    /\ jobs = [u \in UUIDs |-> NoJob]
    /\ env_jobs = 0
    /\ blob = [k \in BlobKeys |-> NoObject]
    /\ BUCKET_CHECKED = FALSE
    /\ bucket_checks = 0
    /\ pc = [f \in Flows |-> "create"]
    /\ st = [f \in Flows |-> "idle"]
    /\ flow_job = [f \in Flows |-> 0]
    /\ gen = [f \in Flows |-> GenIdle]
    /\ gen_bytes = [f \in Flows |-> None]
    /\ raised = [f \in Flows |-> None]
    /\ env_ops = 0
    /\ env_ret = NoJob
    /\ resolution = NoResolution

\* main() lines 82-91: create the job row
CreateJob(f) ==
    /\ pc[f] = "create"
    /\ jobs' = create_job(jobs, uuid4(f, 0),
                          JobCreate(DEFAULT_PROMPT, initial_key(f), reference_key(f)))
    /\ flow_job' = [flow_job EXCEPT ![f] = uuid4(f, 0)]
    /\ pc' = [pc EXCEPT ![f] = "download"]
    /\ UNCHANGED <<env_jobs, blob, BUCKET_CHECKED, bucket_checks, st, gen, gen_bytes, raised,
                   env_ops,
                   env_ret, resolution>>

\* An exception leaves main(); handled tells whether an except clause that
\* marks the job FAILED caught it first.
Propagate(f, exc, handled) ==
    /\ jobs' = IF handled THEN update_job_status(jobs, flow_job[f], "FAILED", None) ELSE jobs
    /\ raised' = [raised EXCEPT ![f] = exc]
    /\ pc' = [pc EXCEPT ![f] = "raised"]
    /\ st' = [st EXCEPT ![f] = "idle"]

\* the try block of lines 94-107 catches Exception; lines 129-132 and 140 are
\* outside any try
storage_handled(p) == p \in {"upload_initial", "upload_reference"}

\* main() lines 95-96: both downloads succeed
Download(f) ==
    /\ pc[f] = "download"
    /\ pc' = [pc EXCEPT ![f] = "upload_initial"]
    /\ UNCHANGED <<jobs, env_jobs, blob, BUCKET_CHECKED, bucket_checks, st, flow_job,
                   gen, gen_bytes, raised, env_ops,
                   env_ret, resolution>>

\* main() lines 95-96, 104-107: a download raises
DownloadFails(f) ==
    /\ pc[f] = "download"
    /\ Propagate(f, "HTTPError", TRUE)
    /\ UNCHANGED <<env_jobs, blob, BUCKET_CHECKED, bucket_checks, flow_job, gen, gen_bytes, env_ops,
                   env_ret, resolution>>

\* ensure_bucket_exists up to its await: return at once when the flag is set,
\* else start _ensure_bucket_sync in a worker thread
EnsureBucket(f) ==
    /\ pc[f] \in StoragePcs
    /\ st[f] = "idle"
    /\ IF BUCKET_CHECKED
       THEN /\ st' = [st EXCEPT ![f] = "io"]
            /\ UNCHANGED bucket_checks
       ELSE /\ st' = [st EXCEPT ![f] = "checking"]
            /\ bucket_checks' = bucket_checks + 1
    /\ UNCHANGED <<jobs, env_jobs, blob, BUCKET_CHECKED, pc, flow_job, gen, gen_bytes, raised, env_ops,
                   env_ret, resolution>>

\* _ensure_bucket_sync returned: set the flag, start the put or the signing
BucketChecked(f) ==
    /\ st[f] = "checking"
    /\ BUCKET_CHECKED' = TRUE
    /\ st' = [st EXCEPT ![f] = "io"]
    /\ UNCHANGED <<jobs, env_jobs, blob, bucket_checks, pc, flow_job, gen, gen_bytes, raised, env_ops,
                   env_ret, resolution>>

\* _ensure_bucket_sync raised (head_bucket answered neither 2xx nor 404)
BucketCheckFails(f) ==
    /\ st[f] = "checking"
    /\ Propagate(f, "ClientError", storage_handled(pc[f]))
    /\ UNCHANGED <<env_jobs, blob, BUCKET_CHECKED, bucket_checks, flow_job, gen, gen_bytes, env_ops,
                   env_ret, resolution>>

\* upload_from_bytes: put_object succeeded
PutObject(f) ==
    /\ pc[f] \in UploadPcs
    /\ st[f] = "io"
    /\ blob' = [blob EXCEPT ![upload_args(f)[1]] = upload_args(f)[2]]
    /\ st' = [st EXCEPT ![f] = "idle"]
    /\ pc' = [pc EXCEPT ![f] = after_upload(pc[f])]
    /\ UNCHANGED <<jobs, env_jobs, BUCKET_CHECKED, bucket_checks, flow_job, gen, gen_bytes, raised,
                   env_ops,
                   env_ret, resolution>>

\* upload_from_bytes: put_object raised
PutObjectFails(f) ==
    /\ pc[f] \in UploadPcs
    /\ st[f] = "io"
    /\ Propagate(f, "ClientError", storage_handled(pc[f]))
    /\ UNCHANGED <<env_jobs, blob, BUCKET_CHECKED, bucket_checks, flow_job, gen, gen_bytes, env_ops,
                   env_ret, resolution>>

\* What one attempt can come to, over the provider behaviours
AttemptOutcomes == {_sync_request_and_extract_bytes(b) : b \in ProviderBehaviours}

\* main() lines 111-119: one attempt of generate_image under the retry wrapper
GenerateAttempt(f) ==
    /\ pc[f] = "generate"
    /\ \E a \in AttemptOutcomes :
          LET g == generate_image(gen[f], a)
          IN /\ gen' = [gen EXCEPT ![f] = g]
             /\ pc' = [pc EXCEPT ![f] =
                         CASE g.outcome.kind = "pending" -> "generate"
                           [] g.outcome.kind = "return" -> "gen_returned"
                           [] OTHER -> "gen_raised"]
    /\ UNCHANGED <<jobs, env_jobs, blob, BUCKET_CHECKED, bucket_checks, st, flow_job,
                   gen_bytes, raised, env_ops,
                   env_ret, resolution>>

\* main() lines 120-127: the except clauses around generate_image
gen_handled(exc) == exc \in {"ImageGenerationError", "UpstreamUnavailable"}

\* generate_image raised into main()
GenerateRaised(f) ==
    /\ pc[f] = "gen_raised"
    /\ Propagate(f, gen[f].outcome.kind, gen_handled(gen[f].outcome.kind))
    /\ gen' = [gen EXCEPT ![f] = GenIdle]
    /\ UNCHANGED <<env_jobs, blob, BUCKET_CHECKED, bucket_checks, flow_job, gen_bytes, env_ops,
                   env_ret, resolution>>

\* generate_image returned into main(): gen_bytes = await ...
GenerateReturned(f) ==
    /\ pc[f] = "gen_returned"
    /\ gen_bytes' = [gen_bytes EXCEPT ![f] = gen[f].outcome.val]
    /\ gen' = [gen EXCEPT ![f] = GenIdle]
    /\ pc' = [pc EXCEPT ![f] = "upload_generated"]
    /\ UNCHANGED <<jobs, env_jobs, blob, BUCKET_CHECKED, bucket_checks, st, flow_job,
                   raised, env_ops,
                   env_ret, resolution>>

\* main() lines 135-137
MarkCompleted(f) ==
    /\ pc[f] = "complete"
    /\ jobs' = update_job_status(jobs, flow_job[f], "COMPLETED", generated_key(f))
    /\ pc' = [pc EXCEPT ![f] = "sign"]
    /\ UNCHANGED <<env_jobs, blob, BUCKET_CHECKED, bucket_checks, st, flow_job, gen, gen_bytes,
                   raised, env_ops,
                   env_ret, resolution>>

\* get_signed_url (line 140) after ensure_bucket_exists; main() returns
Sign(f) ==
    /\ pc[f] = "sign"
    /\ st[f] = "io"
    /\ st' = [st EXCEPT ![f] = "idle"]
    /\ pc' = [pc EXCEPT ![f] = "done"]
    /\ UNCHANGED <<jobs, env_jobs, blob, BUCKET_CHECKED, bucket_checks, flow_job, gen, gen_bytes,
                   raised, env_ops,
                   env_ret, resolution>>

FlowStep(f) ==
    \/ CreateJob(f)
    \/ Download(f)
    \/ DownloadFails(f)
    \/ EnsureBucket(f)
    \/ BucketChecked(f)
    \/ BucketCheckFails(f)
    \/ PutObject(f)
    \/ PutObjectFails(f)
    \/ GenerateAttempt(f)
    \/ GenerateRaised(f)
    \/ GenerateReturned(f)
    \/ MarkCompleted(f)
    \/ Sign(f)

-----------------------------------------------------------------------------
(* crud_job calls made by other callers (the API layer) *)

Prompts == {"swap background", ""}
EnvKeys == {"u/1/initial.jpg"}
EnvGeneratedKeys == {"u/1/generated.jpg"}

JobCreates ==
    {JobCreate(p, k, r) : p \in Prompts, k \in EnvKeys, r \in {None, "u/1/reference.jpg"}}

JobUpdates ==
    {JobUpdate(fs, s, k) :
        fs \in SUBSET {"status", "generated_image_key"},
        s \in JobStatus \cup {None},
        k \in EnvGeneratedKeys \cup {None}}

EnvFrame ==
    UNCHANGED <<blob, BUCKET_CHECKED, bucket_checks, pc, st, flow_job, gen, gen_bytes, raised,
                resolution>>

EnvCreateJob(job_in) ==
    /\ env_jobs < MaxEnvJobs
    /\ jobs' = create_job(jobs, uuid4(0, env_jobs + 1), job_in)
    /\ env_ret' = get_job_by_uuid(jobs', uuid4(0, env_jobs + 1))
    /\ env_jobs' = env_jobs + 1
    /\ env_ops' = env_ops + 1
    /\ EnvFrame

EnvUpdateJob(u, job_in) ==
    /\ get_job_by_uuid(jobs, u).present
    /\ ("status" \notin job_in.fields => job_in.status = None)
    /\ ("generated_image_key" \notin job_in.fields => job_in.generated_image_key = None)
    /\ jobs' = update_job(jobs, u, job_in)
    /\ env_ret' = get_job_by_uuid(jobs', u)
    /\ env_ops' = env_ops + 1
    /\ UNCHANGED env_jobs
    /\ EnvFrame

EnvUpdateJobStatus(u, new_status, key) ==
    /\ jobs' = update_job_status(jobs, u, new_status, key)
    /\ env_ret' = get_job_by_uuid(jobs', u)
    /\ env_ops' = env_ops + 1
    /\ UNCHANGED env_jobs
    /\ EnvFrame

EnvDeleteJob(u) ==
    /\ jobs' = delete_job(jobs, u)
    /\ env_ret' = delete_job_returns(jobs, u)
    /\ env_ops' = env_ops + 1
    /\ UNCHANGED env_jobs
    /\ EnvFrame

\* One call of another caller, while fewer than budget have been made
EnvStep(budget) ==
    \/ \E job_in \in JobCreates : env_ops < budget /\ EnvCreateJob(job_in)
    \/ \E u \in UUIDs, job_in \in JobUpdates : env_ops < budget /\ EnvUpdateJob(u, job_in)
    \/ \E u \in UUIDs, s \in JobStatus, k \in EnvGeneratedKeys \cup {None} :
          env_ops < budget /\ EnvUpdateJobStatus(u, s, k)
    \/ \E u \in UUIDs : env_ops < budget /\ EnvDeleteJob(u)

\* The flows, and at most MaxInterference calls of other callers among them
Next ==
    \/ \E f \in Flows : FlowStep(f)
    \/ EnvStep(MaxInterference)

Spec == Init /\ [][Next]_vars

\* The repository alone under its other callers
CrudNext == EnvStep(MaxEnvOps)

CrudSpec == Init /\ [][CrudNext]_vars

\* The flows alone: every job has the single caller that created it.
FlowNext == \E f \in Flows : FlowStep(f)

FlowSpec == Init /\ [][FlowNext]_vars

\* One attempt of generate_image taken alone, against any provider behaviour
ResolveInit ==
    /\ jobs = [u \in UUIDs |-> NoJob]
    /\ env_jobs = 0
    /\ blob = [k \in BlobKeys |-> NoObject]
    /\ BUCKET_CHECKED = FALSE
    /\ bucket_checks = 0
    /\ pc = [f \in Flows |-> "create"]
    /\ st = [f \in Flows |-> "idle"]
    /\ flow_job = [f \in Flows |-> 0]
    /\ gen = [f \in Flows |-> GenIdle]
    /\ gen_bytes = [f \in Flows |-> None]
    /\ raised = [f \in Flows |-> None]
    /\ env_ops = 0
    /\ env_ret = NoJob
    /\ resolution \in {[started |-> TRUE, done |-> FALSE, b |-> b] : b \in ResolveBehaviours}

\* anyio.to_thread.run_sync(_sync_request_and_extract_bytes) runs to its end
ResolveAttempt ==
    /\ resolution.started
    /\ ~resolution.done
    /\ resolution' = [started |-> TRUE, done |-> TRUE, b |-> resolution.b,
                      a |-> _sync_request_and_extract_bytes(resolution.b)]
    /\ UNCHANGED <<jobs, env_jobs, blob, BUCKET_CHECKED, bucket_checks, pc, st, flow_job,
                   gen, gen_bytes, raised, env_ops, env_ret>>

ResolveNext == ResolveAttempt

ResolveSpec == ResolveInit /\ [][ResolveNext]_vars

-----------------------------------------------------------------------------
(* Properties *)

job_of(f) == get_job_by_uuid(jobs, flow_job[f])

Terminal == {"COMPLETED", "FAILED"}

\* C1: once a job's status is COMPLETED or FAILED, no later operation
\* (update_job, update_job_status, a step of the flow) changes its status.
C1_TerminalStatusNeverChanges ==
    [][\A u \in UUIDs :
          (jobs[u].present /\ jobs[u].status \in Terminal /\ jobs'[u].present)
              => jobs'[u].status = jobs[u].status]_vars

\* The exceptions main() can only have got from generate_image
GenerateFailures == {"ImageGenerationError", "UpstreamUnavailable", "RetryError", "ConnectionError"}

\* C2: every failure generate_image surfaces to the flow leaves the job FAILED
\* with no generated key when the flow re-raises it; the job is never left
\* PENDING or PROCESSING.
C2_GenerateFailureMarksFailed ==
    \A f \in Flows :
        (pc[f] = "raised" /\ raised[f] \in GenerateFailures)
            => /\ job_of(f).present
               /\ job_of(f).status = "FAILED"
               /\ job_of(f).generated_image_key = None

\* C3: when generation succeeded and the upload of the generated bytes failed,
\* the flow ends with the job FAILED and no generated key.
C3_UploadFailureMarksFailed ==
    \A f \in Flows :
        (pc[f] = "raised" /\ gen_bytes[f] # None /\ blob[generated_key(f)] = NoObject)
            => /\ job_of(f).present
               /\ job_of(f).status = "FAILED"
               /\ job_of(f).generated_image_key = None

AllUnavailable(h) == \A i \in 1..Len(h) : h[i].kind = "UpstreamUnavailable"

\* C4: when all 3 attempts fail with UpstreamUnavailable, generate_image raises
\* UpstreamUnavailable, which the caller's handler catches.
C4_ExhaustedRetriesRaiseUnavailable ==
    \A f \in Flows :
        (pc[f] = "gen_raised" /\ Len(gen[f].history) = 3 /\ AllUnavailable(gen[f].history))
            => /\ gen[f].outcome.kind = "UpstreamUnavailable"
               /\ gen_handled(gen[f].outcome.kind)

\* C5: generate_image returns bytes or fails with ImageGenerationError or
\* UpstreamUnavailable; no other failure kind reaches its caller.
C5_OnlyDomainErrorsSurface ==
    \A f \in Flows :
        pc[f] \in {"gen_returned", "gen_raised"}
            => gen[f].outcome.kind \in {"return", "ImageGenerationError", "UpstreamUnavailable"}

\* C6: a new attempt is made only after an attempt failed with
\* UpstreamUnavailable, there are at most 3 attempts, and when the first two
\* fail transiently and the third succeeds generate_image returns the third
\* attempt's bytes and attempts nothing more.
C6_RetryOnlyTransientAtMostThree ==
    \A f \in Flows :
        LET h == gen[f].history
        IN /\ Len(h) <= 3
           /\ gen[f].chat_calls = Len(h)
           /\ \A i \in 1..(Len(h) - 1) : h[i].kind = "UpstreamUnavailable"
           /\ pc[f] = "generate" => AllUnavailable(h)
           /\ (Len(h) = 3 /\ h[3].kind = "return")
                 => /\ pc[f] = "gen_returned"
                    /\ gen[f].outcome = [kind |-> "return", val |-> h[3].bytes]

C6_Witness ==
    \E f \in Flows :
        /\ pc[f] = "gen_returned"
        /\ Len(gen[f].history) = 3
        /\ gen[f].history[1].kind = "UpstreamUnavailable"
        /\ gen[f].history[2].kind = "UpstreamUnavailable"
        /\ gen[f].outcome = [kind |-> "return", val |-> "b2"]

\* A model-not-found answer of the chat call, or of the responses call when the
\* attempt gets to it, makes the attempt fail with ImageGenerationError.
NotFoundIsActionable ==
    \A b \in ProviderBehaviours :
        LET a == _sync_request_and_extract_bytes(b)
        IN /\ b.chat = "NotFoundError" => a.kind = "ImageGenerationError"
           /\ (a.responses_calls = 1 /\ b.responses = "NotFoundError")
                 => a.kind = "ImageGenerationError"

\* C7: an attempt that fails with ImageGenerationError is the last one:
\* generate_image raises that error and issues no further provider call; when
\* it is the first attempt, exactly one attempt was made.
C7_ActionableNeverRetried ==
    /\ NotFoundIsActionable
    /\ \A f \in Flows :
          LET h == gen[f].history
          IN \A i \in 1..Len(h) :
                h[i].kind = "ImageGenerationError"
                    => /\ i = Len(h)
                       /\ pc[f] = "gen_raised"
                       /\ gen[f].outcome.kind = "ImageGenerationError"
                       /\ gen[f].chat_calls = i
                       /\ gen[f].responses_calls <= i

C7_Witness ==
    \E f \in Flows :
        /\ pc[f] = "gen_raised"
        /\ gen[f].history = <<[kind |-> "ImageGenerationError", bytes |-> None]>>
        /\ gen[f].chat_calls = 1
        /\ gen[f].responses_calls = 1

\* C8: every stored job has status COMPLETED exactly when its
\* generated_image_key is set.
C8_CompletedIffGeneratedKey ==
    \A u \in UUIDs :
        jobs[u].present
            => (jobs[u].status = "COMPLETED" <=> jobs[u].generated_image_key # None)

\* C9: once the generated bytes are uploaded and the flow has marked the job,
\* the job is COMPLETED with generated_image_key the key of the upload and the
\* bucket holds the bytes generate_image returned under that key; the job is
\* never COMPLETED before the upload.
C9_SuccessPathCompletes ==
    \A f \in Flows :
        /\ pc[f] \in {"sign", "done"}
              => /\ job_of(f).present
                 /\ job_of(f).status = "COMPLETED"
                 /\ job_of(f).generated_image_key = generated_key(f)
        /\ (job_of(f).present /\ job_of(f).status = "COMPLETED")
              => /\ gen_bytes[f] \in {"b1", "b2"}
                 /\ blob[generated_key(f)] = gen_bytes[f]
        /\ pc[f] = "complete"
              => /\ blob[generated_key(f)] = gen_bytes[f]
                 /\ job_of(f).status # "COMPLETED"

C9_Witness ==
    \E f \in Flows :
        /\ pc[f] = "done"
        /\ job_of(f).status = "COMPLETED"
        /\ blob[generated_key(f)] = "b2"

\* What create_job followed by get_job_by_uuid must show for input job_in
CreatedAsGiven(uuid, job_in) ==
    LET job == get_job_by_uuid(jobs', uuid)
    IN /\ job.present
       /\ job.uuid = uuid
       /\ job.status = "PENDING"
       /\ job.generated_image_key = None
       /\ job.prompt = job_in.prompt
       /\ job.initial_image_key = job_in.initial_image_key
       /\ job.reference_image_key = job_in.reference_image_key
       /\ gen' = gen

\* C10: create_job followed at once by get_job_by_uuid on the returned uuid
\* yields a PENDING job with no generated key and the input's prompt and image
\* keys, and create_job issues no upstream call.
C10_CreateThenGet ==
    [][/\ \A job_in \in JobCreates :
             EnvCreateJob(job_in) => CreatedAsGiven(uuid4(0, env_jobs + 1), job_in)
       /\ \A f \in Flows :
             CreateJob(f) => CreatedAsGiven(uuid4(f, 0),
                                            JobCreate(DEFAULT_PROMPT, initial_key(f),
                                                      reference_key(f)))]_vars

C10_Witness ==
    /\ env_jobs = 1
    /\ env_ops = 1
    /\ jobs[uuid4(0, 1)].present
    /\ jobs[uuid4(0, 1)].prompt = "swap background"
    /\ jobs[uuid4(0, 1)].reference_image_key = None

\* What update_job must have done to job u for input job_in
UpdatedAsSet(u, job_in) ==
    LET old == jobs[u]
        new == jobs'[u]
    IN /\ new.present
       /\ new.status = IF "status" \in job_in.fields THEN job_in.status ELSE old.status
       /\ new.generated_image_key =
              IF "generated_image_key" \in job_in.fields
              THEN job_in.generated_image_key ELSE old.generated_image_key
       /\ new.uuid = old.uuid
       /\ new.prompt = old.prompt
       /\ new.initial_image_key = old.initial_image_key
       /\ new.reference_image_key = old.reference_image_key
       /\ job_in.fields = {} => new = old
       /\ env_ret' = new

\* C11: update_job applies exactly the fields set in the JobUpdate and leaves
\* every other field of the job untouched: a status-only update keeps
\* generated_image_key, an update with no field set keeps the whole job.
C11_UpdateAppliesOnlySetFields ==
    [][\A u \in UUIDs, job_in \in JobUpdates :
          EnvUpdateJob(u, job_in) => UpdatedAsSet(u, job_in)]_vars

C11_Witness ==
    /\ env_ops = 3
    /\ jobs[uuid4(0, 1)].present
    /\ jobs[uuid4(0, 1)].status = "PROCESSING"
    /\ jobs[uuid4(0, 1)].generated_image_key = "u/1/generated.jpg"
    /\ jobs[uuid4(0, 1)].prompt = "swap background"
    /\ env_ret = jobs[uuid4(0, 1)]

\* C12: delete_job on an existing job removes it and returns it; on an absent
\* id (a second call included) it returns None and leaves the repository
\* unchanged; no other job is removed.
C12_DeleteIdempotent ==
    [][\A u \in UUIDs :
          EnvDeleteJob(u)
              => /\ ~get_job_by_uuid(jobs', u).present
                 /\ \A v \in UUIDs \ {u} : jobs'[v] = jobs[v]
                 /\ IF get_job_by_uuid(jobs, u).present
                    THEN env_ret' = jobs[u]
                    ELSE env_ret' = NoJob /\ jobs' = jobs]_vars

C12_Witness ==
    /\ env_ops = 3
    /\ env_jobs = 2
    /\ ~jobs[uuid4(0, 1)].present
    /\ jobs[uuid4(0, 2)].present
    /\ env_ret = GenerationJob(uuid4(0, 1), "swap background", "u/1/initial.jpg", None)

\* The attempt taken alone has run, on content that is a list of parts
ResolvedList == resolution.started /\ resolution.done /\ resolution.b.content.form = "list"

IsTextPart(part) == part.type = "text"

HasUrlInText(part) ==
    IsTextPart(part) /\ "text" \in DOMAIN part /\ _extract_url_from_text(part.text) # None

\* inline base64 data of an image, under either key, and no image URL
IsInlinePart(part) ==
    /\ part.url = None
    /\ \/ part.b64_json \in {"b64:b1", "b64:b2"}
       \/ part.b64_json = None /\ part.b64 \in {"b64:b1", "b64:b2"}

InlineData(part) == IF part.b64_json # None THEN part.b64_json ELSE part.b64

FirstIndex(parts, P(_)) ==
    CHOOSE i \in 1..Len(parts) : P(parts[i]) /\ \A j \in 1..(i - 1) : ~P(parts[j])

\* C13: when the chat content is a list of text parts and inline base64 parts
\* holding both a text part with a URL and an inline part, in either order,
\* the attempt returns the decoded bytes of the first inline part, fetches no
\* URL and does not issue the responses call.
C13_InlineDataWinsOverTextUrl ==
    LET parts == resolution.b.content.parts
        a == resolution.a
    IN (/\ ResolvedList
        /\ \A i \in 1..Len(parts) : IsTextPart(parts[i]) \/ IsInlinePart(parts[i])
        /\ \E i \in 1..Len(parts) : HasUrlInText(parts[i])
        /\ \E i \in 1..Len(parts) : IsInlinePart(parts[i]))
           => /\ a.kind = "return"
              /\ a.val = b64decode(InlineData(parts[FirstIndex(parts, IsInlinePart)])).bytes
              /\ a.log = <<>>
              /\ a.chat_calls = 1
              /\ a.responses_calls = 0

C13_Witness ==
    /\ ResolvedList
    /\ resolution.b.content.parts = <<TextPartWith(<<Word, Link("http://u2")>>), B64Part("b64:b1")>>
    /\ resolution.b.web["http://u2"] = Resp(200, "b2")
    /\ resolution.a.kind = "return"
    /\ resolution.a.val = "b1"

\* The part is an image part whose URL fetch is answered with a status >= 400
FetchFails(web, part) ==
    /\ part.type \in {"image_url", "output_image"}
    /\ part.url # None
    /\ ~web[part.url].exc
    /\ web[part.url].status_code >= 400

IsTransientStatus(status_code) ==
    status_code = 429 \/ (500 <= status_code /\ status_code < 600)

YieldsBytes(web, part) ==
    LET data == _extract_bytes_from_part(web, part)
    IN ~IsRaise(data) /\ Truthy(data.val)

\* C14: the scan of a content list skips a part whose extraction errors,
\* except that a failed URL fetch of an image part ends the scan: the attempt
\* fails with UpstreamUnavailable on 429/5xx and with ImageGenerationError on
\* another status >= 400; the first part that yields bytes before any such
\* failure is what the attempt returns.
C14_UrlFetchFailurePropagates ==
    LET parts == resolution.b.content.parts
        web == resolution.b.web
        a == resolution.a
        Decisive(part) == FetchFails(web, part) \/ YieldsBytes(web, part)
    IN (ResolvedList /\ \E i \in 1..Len(parts) : Decisive(parts[i]))
          => LET part == parts[FirstIndex(parts, Decisive)]
             IN /\ a.responses_calls = 0
                /\ IF FetchFails(web, part)
                   THEN a.kind = IF IsTransientStatus(web[part.url].status_code)
                                 THEN "UpstreamUnavailable" ELSE "ImageGenerationError"
                   ELSE /\ a.kind = "return"
                        /\ a.val = _extract_bytes_from_part(web, part).val

Resolved == resolution.started /\ resolution.done

\* The chat call returned and the message content could be read
ChatReturned(b) == b.chat = "ok" /\ ~b.malformed

\* Nothing is extracted from the content of the chat answer
PrimaryYieldsNothing(b) ==
    CASE b.content.form = "str" -> _extract_url_from_text(b.content.text) = None
      [] b.content.form = "list" ->
            ~Truthy(_extract_bytes_from_parts(b.web, b.content.parts).val)
      [] OTHER -> TRUE

FallbackYieldsNothing(b) ==
    b.responses = "ok" /\ ~Truthy(_deep_find_image_payload(b.web, b.data2).val)

NoPayload(a) ==
    a.kind = "ImageGenerationError" /\ a.val = "Upstream did not include an image payload"

\* C15: whenever the chat call returned and nothing is extracted from its
\* content (text without a URL, a list with no extractable part, another
\* form), the responses call is issued; the attempt fails with "no image
\* payload" only after both calls yielded nothing.
C15_FallbackWheneverPrimaryEmpty ==
    LET b == resolution.b
        a == resolution.a
    IN (Resolved /\ ChatReturned(b))
          => /\ PrimaryYieldsNothing(b) => a.responses_calls = 1
             /\ NoPayload(a) => /\ a.chat_calls = 1
                                /\ a.responses_calls = 1
                                /\ PrimaryYieldsNothing(b)
                                /\ FallbackYieldsNothing(b)

\* C15 as amended: the responses call is issued whenever the content is not
\* plain text and nothing is extracted from it; plain text never leads to the
\* responses call, and text without a URL fails the attempt at once.
C15_FallbackUnlessPlainText ==
    LET b == resolution.b
        a == resolution.a
    IN (Resolved /\ ChatReturned(b))
          => /\ (b.content.form # "str" /\ PrimaryYieldsNothing(b)) => a.responses_calls = 1
             /\ b.content.form = "str" => a.responses_calls = 0
             /\ (b.content.form = "str" /\ PrimaryYieldsNothing(b))
                   => /\ a.kind = "ImageGenerationError"
                      /\ a.val = "Upstream returned text content without an image URL"
             /\ NoPayload(a) => /\ a.chat_calls = 1
                                /\ a.responses_calls = 1
                                /\ PrimaryYieldsNothing(b)
                                /\ FallbackYieldsNothing(b)

C15_Witness ==
    /\ Resolved
    /\ resolution.b.content = ListContent(<<B64Part("b64?")>>)
    /\ resolution.b.data2 = JDict(<<"output">>, <<JList(<<>>)>>)
    /\ NoPayload(resolution.a)
    /\ resolution.a.responses_calls = 1

\* C16: over any number of upload_from_bytes / get_signed_url calls, also of
\* coroutines that interleave at the await of ensure_bucket_exists, the bucket
\* check (_ensure_bucket_sync) is executed at most once.
C16_BucketCheckedAtMostOnce == bucket_checks <= 1

\* C17: the flow moves the job to PROCESSING before it calls generate_image
\* (the job is PROCESSING when the call is made), and a job reaches COMPLETED
\* or FAILED only from PROCESSING.
C17_ProcessingBeforeGenerate ==
    [][\A f \in Flows :
          /\ (pc[f] = "generate" /\ GenerateAttempt(f)) => job_of(f).status = "PROCESSING"
          /\ \A u \in UUIDs :
                (jobs[u].present /\ jobs'[u].present
                 /\ jobs[u].status \notin Terminal /\ jobs'[u].status \in Terminal)
                    => jobs[u].status = "PROCESSING"]_vars

HasUrl(token) == token.url # None

\* C18: a URL fetch answering 429 or 5xx fails with UpstreamUnavailable, one
\* answering another status >= 400 fails with ImageGenerationError, one
\* answering a status below 400 returns the response bytes; when the chat
\* content is text holding a URL, the attempt fetches the first URL of the
\* text and nothing else, and has exactly that fetch's outcome.
C18_FetchClassifiedByStatus ==
    LET b == resolution.b
        a == resolution.a
        text == b.content.text
    IN (/\ Resolved
        /\ ChatReturned(b)
        /\ b.content.form = "str"
        /\ \E i \in 1..Len(text) : HasUrl(text[i]))
          => LET url == text[FirstIndex(text, HasUrl)].url
                 resp == b.web[url]
             IN /\ a.log = <<url>>
                /\ a.chat_calls = 1
                /\ a.responses_calls = 0
                /\ ~resp.exc
                      => IF IsTransientStatus(resp.status_code)
                         THEN a.kind = "UpstreamUnavailable"
                         ELSE IF resp.status_code >= 400
                         THEN a.kind = "ImageGenerationError"
                         ELSE a.kind = "return" /\ a.val = resp.content

C18_Witness ==
    /\ Resolved
    /\ resolution.b.content = TextContent(<<Word, Link("http://u1"), Link("http://u2")>>)
    /\ resolution.b.web["http://u1"].status_code = 429
    /\ resolution.a.kind = "UpstreamUnavailable"
    /\ resolution.a.log = <<"http://u1">>

\* The content of the chat answer yields bytes
PrimaryYieldsBytes(b) ==
    /\ ChatReturned(b)
    /\ CASE b.content.form = "str" ->
               /\ _extract_url_from_text(b.content.text) # None
               /\ ~IsRaise(_fetch_bytes_from_url(b.web, _extract_url_from_text(b.content.text)))
          [] b.content.form = "list" ->
               Truthy(_extract_bytes_from_parts(b.web, b.content.parts).val)
          [] OTHER -> FALSE

\* An attempt issues one chat call and at most one responses call, and no
\* responses call once the chat answer has yielded bytes
AttemptStopsAtFirstSuccess ==
    \A b \in ProviderBehaviours \cup ResolveBehaviours :
        LET a == _sync_request_and_extract_bytes(b)
        IN /\ a.chat_calls = 1
           /\ a.responses_calls \in {0, 1}
           /\ PrimaryYieldsBytes(b) => (a.kind = "return" /\ a.responses_calls = 0)

\* C19: within an attempt the responses call is never issued once the chat
\* answer has yielded bytes, an attempt issues at most one chat and at most
\* one responses call, and one generate_image invocation issues at most 3
\* chat and at most 3 responses calls whatever the provider does.
C19_BoundedProviderCalls ==
    /\ AttemptStopsAtFirstSuccess
    /\ \A f \in Flows :
          /\ gen[f].chat_calls <= 3
          /\ gen[f].responses_calls <= 3
          /\ gen[f].chat_calls = Len(gen[f].history)
          /\ gen[f].responses_calls <= Len(gen[f].history)
          /\ pc[f] \notin {"generate", "gen_returned", "gen_raised"} => gen[f].chat_calls = 0

C19_Witness ==
    \E f \in Flows :
        /\ pc[f] = "gen_raised"
        /\ gen[f].outcome.kind = "RetryError"
        /\ gen[f].chat_calls = 3
        /\ gen[f].responses_calls = 3

\* The step leaves existence, status and generated key of every job but u as
\* they were
OthersUntouched(u) ==
    \A v \in UUIDs \ {u} :
        /\ jobs'[v].present = jobs[v].present
        /\ jobs[v].present
              => /\ jobs'[v].status = jobs[v].status
                 /\ jobs'[v].generated_image_key = jobs[v].generated_image_key

\* C20: a create_job, update_job, update_job_status or delete_job call, and a
\* step of the flow of one job, leaves the status, the generated key and the
\* existence of every other job unchanged, however the flows interleave.
\* (Each conjunct reads "the step is not this call, or it left the others".)
C20_JobLifecyclesIndependent ==
    [][/\ \A f \in Flows : OthersUntouched(uuid4(f, 0)) \/ ~FlowStep(f)
       /\ \/ OthersUntouched(uuid4(0, env_jobs + 1))
          \/ \A job_in \in JobCreates : ~EnvCreateJob(job_in)
       /\ \A u \in UUIDs :
             \/ OthersUntouched(u)
             \/ /\ \A job_in \in JobUpdates : ~EnvUpdateJob(u, job_in)
                /\ \A s \in JobStatus, k \in EnvGeneratedKeys \cup {None} :
                      ~EnvUpdateJobStatus(u, s, k)
                /\ ~EnvDeleteJob(u)]_vars

C20_Witness ==
    /\ pc[1] = "done"
    /\ job_of(1).present
    /\ job_of(1).status = "COMPLETED"
    /\ pc[2] = "generate"
    /\ job_of(2).present
    /\ job_of(2).status = "PENDING"
    /\ job_of(2).generated_image_key = None
    /\ env_ops = 1
    /\ jobs[uuid4(0, 1)].present

\* The mappings the search of a responses answer tries in turn, when the
\* answer is a mapping or a sequence of such mappings, possibly under "output"
LeavesOf(tree) ==
    LET top == IF tree.t = "dict" /\ tree.keys = <<"output">> THEN tree.vals[1] ELSE tree
    IN CASE top.t = "list" -> top.items
         [] top.t = "dict" -> top.vals
         [] OTHER -> <<>>

IsLeaf(m) ==
    /\ m.t = "dict"
    /\ \A i \in 1..Len(m.keys) : m.keys[i] \in {"b64_json", "image_url"}

\* What a mapping gives by the claim: its inline data decoded when it has any,
\* else the body its image URL is answered with; nothing when that fails
LeafBytes(web, m) ==
    LET data == JGet(m, "b64_json")
        container == JGet(m, "image_url")
    IN IF data.t = "str" /\ data.v # EmptyBytes
       THEN IF data.v \in {"b64:b1", "b64:b2"} THEN b64decode(data.v).bytes ELSE None
       ELSE IF container.t = "dict"
       THEN LET resp == web[JGet(container, "url").v]
            IN IF ~resp.exc /\ resp.status_code < 400 THEN resp.content ELSE None
       ELSE None

\* The attempt got to search a responses answer
SearchedFallback(b) ==
    /\ ChatReturned(b)
    /\ b.content.form # "str"
    /\ PrimaryYieldsNothing(b)
    /\ b.responses = "ok"

\* C21: an error raised while the responses answer is searched (a decode
\* failure, a URL fetch answering 429, 5xx or another status >= 400) is
\* swallowed: the failing mapping gives nothing, the search goes on with its
\* siblings, and when nothing else is found the attempt fails with
\* ImageGenerationError "did not include an image payload", never with
\* UpstreamUnavailable.
C21_FallbackSearchSwallowsErrors ==
    LET b == resolution.b
        a == resolution.a
        leaves == LeavesOf(b.data2)
        Gives(m) == Truthy(LeafBytes(b.web, m))
    IN (Resolved /\ SearchedFallback(b))
          => /\ a.responses_calls = 1
             /\ a.kind = "return" \/ NoPayload(a)
             /\ (\A i \in 1..Len(leaves) : IsLeaf(leaves[i]))
                   => IF \E i \in 1..Len(leaves) : Gives(leaves[i])
                      THEN /\ a.kind = "return"
                           /\ a.val = LeafBytes(b.web, leaves[FirstIndex(leaves, Gives)])
                      ELSE NoPayload(a)

C21_Witness ==
    /\ Resolved
    /\ resolution.b.content = OtherContent
    /\ resolution.b.data2 = OutputOf(<<UrlLeaf("http://u1"), UrlLeaf("http://u2")>>)
    /\ resolution.b.web["http://u1"].status_code = 503
    /\ resolution.a.kind = "return"
    /\ resolution.a.val = "b2"
    /\ resolution.a.log = <<"http://u1", "http://u2">>

\* C22: the flag becomes true only when a bucket check completes and never
\* returns to false; when _ensure_bucket_sync raises, the call propagates the
\* error with the flag still false and performs no put or sign, and a call made
\* while the flag is false performs the check again; a call made once the flag
\* is true performs no check.
C22_FlagSetOnlyBySuccessfulCheck ==
    [][/\ BUCKET_CHECKED => BUCKET_CHECKED'
       /\ (~BUCKET_CHECKED /\ BUCKET_CHECKED') => \E f \in Flows : BucketChecked(f)
       /\ \A f \in Flows :
             /\ BucketCheckFails(f)
                   => /\ ~BUCKET_CHECKED'
                      /\ blob' = blob
                      /\ pc'[f] = "raised"
                      /\ raised'[f] = "ClientError"
             /\ EnsureBucket(f)
                   => IF BUCKET_CHECKED
                      THEN bucket_checks' = bucket_checks /\ st'[f] = "io"
                      ELSE bucket_checks' = bucket_checks + 1 /\ st'[f] = "checking"]_vars

====
